---- MODULE Spec2Model ----
(***************************************************************************)
(* Model of gunpowder's chunked-execution nodes:                           *)
(*   - DaisyRequestBlocks (gunpowder/nodes/daisy_request_blocks.py)        *)
(*   - Scan               (gunpowder/nodes/scan.py)                        *)
(* SpecDaisy drives the block-distributed client, SpecScan the scan node.  *)
(***************************************************************************)
EXTENDS Integers, Sequences, FiniteSets, TLC

\* ------------------------------------------------------------------------
\* Bounds of the model
\* ------------------------------------------------------------------------
MaxWorkers == 2

MaxBlocks == 3

MaxCacheSize == 1

MaxOffset == 1

MaxRefShape == 2

MaxBoundShape == 3

MaxVoxelSize == 2

MaxCalls == 2

MaxFolds == 2

Keys == {"a", "b"}

Workers == 1..MaxWorkers

VARIABLES
    d_reference,      \* DaisyRequestBlocks.reference: its keys, in items() order
    d_roi_map,        \* DaisyRequestBlocks.roi_map: key -> roi type ("none" = key absent)
    d_num_workers,    \* DaisyRequestBlocks.num_workers
    d_request_len,    \* len(request) of the request given to provide
    d_num_blocks,     \* blocks the scheduler hands out before it returns None
    d_next_block,     \* scheduler state: next block to hand out
    d_pc,             \* position of provide
    w_pc,             \* position of each __get_chunks invocation
    w_block,          \* local `block` of each worker (0 = none)
    w_ki,             \* index of the for loop over reference.items()
    w_chunk_request,  \* local `chunk_request` of each worker
    d_trace           \* per worker: its calls to the scheduler and to the upstream provider

daisy_vars == <<d_reference, d_roi_map, d_num_workers, d_request_len,
                d_num_blocks, d_next_block, d_pc, w_pc, w_block, w_ki,
                w_chunk_request, d_trace>>

VARIABLES
    reference,        \* Scan.reference: key -> Roi
    spec,             \* Scan.spec (upstream spec): key -> [has_roi, roi, voxel_size]
    request,          \* the request given to Scan.provide: key -> Roi (<<>> = empty)
    num_workers,      \* Scan.num_workers
    cache_size,       \* Scan.cache_size
    s_pc,             \* position of Scan.provide
    shifts,           \* local `shifts` of provide
    num_processed,    \* chunks obtained so far by provide (the loop index i)
    batch,            \* Scan.batch, the accumulator
    returned_batch,   \* the value provide returned
    request_queue,    \* Scan.request_queue
    result_queue,     \* the pool's bounded result queue
    p_pc,             \* position of each pool worker
    p_result,         \* the result a pool worker holds before it is put
    upstream,         \* the requests issued to the upstream provider, in order
    callback,         \* the calls made to progress_callback, in order
    call_no,          \* how many times provide has been called
    folded            \* the chunks the current provide call has obtained, in order

scan_vars == <<reference, spec, request, num_workers, cache_size, s_pc, shifts,
               num_processed, batch, returned_batch, request_queue,
               result_queue, p_pc, p_result, upstream, callback, call_no,
               folded>>

VARIABLES
    f_pc,             \* position of the sequence of _fill calls
    f_a,              \* the destination buffer `a` of _fill
    f_roi_a,          \* roi_a of _fill, the ROI of the destination
    f_voxel_size,     \* voxel_size of _fill
    f_chunks,         \* the ROIs of the chunks that are to be filled in
    f_filled          \* the ROIs of the chunks filled in so far

fill_vars == <<f_pc, f_a, f_roi_a, f_voxel_size, f_chunks, f_filled>>

VARIABLES
    g_pc,             \* position of the sequence of _fill_points calls
    g_a,              \* the destination graph `a` of _fill_points
    g_roi_a,          \* roi_a of _fill_points, the ROI of the destination
    g_b,              \* the chunk graph `b` of the last call
    g_roi_b,          \* roi_b of the last call
    g_before,         \* the destination graph before the last call
    g_count           \* how many chunk graphs have been folded

graph_vars == <<g_pc, g_a, g_roi_a, g_b, g_roi_b, g_before, g_count>>

vars == <<daisy_vars, scan_vars, fill_vars, graph_vars>>

\* ------------------------------------------------------------------------
\* Geometry: Coordinate and Roi (gunpowder.coordinate, gunpowder.roi)
\* A Coordinate is a tuple of integers, a Roi a record [offset, shape].
\* ------------------------------------------------------------------------
Min(a, b) == IF a <= b THEN a ELSE b

Max(a, b) == IF a >= b THEN a ELSE b

CAdd(a, b) == [d \in DOMAIN a |-> a[d] + b[d]]

CSub(a, b) == [d \in DOMAIN a |-> a[d] - b[d]]

CMin(a, b) == [d \in DOMAIN a |-> Min(a[d], b[d])]

CMax(a, b) == [d \in DOMAIN a |-> Max(a[d], b[d])]

CFloorDiv(a, b) == [d \in DOMAIN a |-> a[d] \div b[d]]

Roi(offset, shape) == [offset |-> offset, shape |-> shape]

RoiEnd(r) == CAdd(r.offset, r.shape)

RoiEmpty(r) == \E d \in DOMAIN r.shape : r.shape[d] <= 0

RoiIntersect(a, b) ==
    LET begin == CMax(a.offset, b.offset)
        end == CMin(RoiEnd(a), RoiEnd(b))
    IN Roi(begin, CSub(end, begin))

RoiShift(r, by) == Roi(CAdd(r.offset, by), r.shape)

RoiSub(r, by) == Roi(CSub(r.offset, by), r.shape)

RoiFloorDiv(r, by) == Roi(CFloorDiv(r.offset, by), CFloorDiv(r.shape, by))

RoiContainsPoint(r, p) ==
    \A d \in DOMAIN p : r.offset[d] <= p[d] /\ p[d] < r.offset[d] + r.shape[d]

RoiContainsRoi(r, other) ==
    \A d \in DOMAIN r.offset :
        /\ r.offset[d] <= other.offset[d]
        /\ other.offset[d] + other.shape[d] <= r.offset[d] + r.shape[d]

\* the points (or array indices) of a Roi
RoiPoints(r) ==
    {p \in [DOMAIN r.offset -> UNION {r.offset[d]..(r.offset[d] + r.shape[d] - 1) :
                                          d \in DOMAIN r.offset}] :
        RoiContainsPoint(r, p)}

RECURSIVE Gcd(_, _)
Gcd(a, b) == IF b = 0 THEN a ELSE Gcd(b, a % b)

Lcm(a, b) == (a * b) \div Gcd(a, b)

RECURSIVE LcmOver(_, _, _)
LcmOver(vs, keys, d) ==
    IF keys = {} THEN 1
    ELSE LET k == CHOOSE x \in keys : TRUE
         IN Lcm(vs[k].voxel_size[d], LcmOver(vs, keys \ {k}, d))

\* ProviderSpec.get_lcm_voxel_size(keys): dimension-wise least common multiple
GetLcmVoxelSize(sp, keys) ==
    LET k0 == CHOOSE x \in keys : TRUE
    IN [d \in DOMAIN sp[k0].voxel_size |-> LcmOver(sp, keys, d)]

\* keys of a request in items() order
RECURSIVE KeyOrder(_)
KeyOrder(keys) ==
    IF keys = {} THEN <<>>
    ELSE LET k == CHOOSE x \in keys : \A y \in keys : x = y \/ x = "a"
         IN <<k>> \o KeyOrder(keys \ {k})

\* ------------------------------------------------------------------------
\* DaisyRequestBlocks
\* ------------------------------------------------------------------------

\* sequences of distinct keys
KeySeqs == {s \in UNION {[1..n -> Keys] : n \in 0..Cardinality(Keys)} :
                \A i, j \in DOMAIN s : i # j => s[i] # s[j]}

\* "none": the key is not in roi_map; "other": a value that is no ROI type
RoiTypes == {"none", "read_roi", "write_roi", "other"}

\* the ROI a reference spec carries before it is remapped
ReferenceRoi == [kind |-> "reference", block |-> 0]

\* block.read_roi / block.write_roi of block b
BlockRoi_Swapped(roi_type, b) ==
    [kind |-> IF roi_type = "read_roi" THEN "write_roi" ELSE "read_roi", block |-> b]

BlockRoi(roi_type, b) == [kind |-> roi_type, block |-> b]

\* chunk_request = self.reference.copy()
ReferenceCopy(ref) == [k \in {ref[i] : i \in DOMAIN ref} |-> ReferenceRoi]

\* empty_request = (len(request) == 0); if not empty_request: raise
RequestRejected_Never(len) == FALSE

RequestRejected(len) == len # 0

\* roi_map.get(key, None) is None, or neither 'read_roi' nor 'write_roi'
RoiTypeInvalid(roi_type) == roi_type \notin {"read_roi", "write_roi"}

DaisyInit ==
    /\ d_reference \in KeySeqs
    /\ d_roi_map \in [Keys -> RoiTypes]
    /\ \A k \in Keys : (\A i \in DOMAIN d_reference : d_reference[i] # k) => d_roi_map[k] = "none"
    /\ d_num_workers \in 1..MaxWorkers
    /\ d_request_len \in {0, 1}
    /\ d_num_blocks \in 0..MaxBlocks
    /\ d_next_block = 1
    /\ d_pc = "call"
    /\ w_pc = [w \in Workers |-> "off"]
    /\ w_block = [w \in Workers |-> 0]
    /\ w_ki = [w \in Workers |-> 0]
    /\ w_chunk_request = [w \in Workers |-> <<>>]
    /\ d_trace = [w \in Workers |-> <<>>]
    \* no Scan node in this pipeline
    /\ reference = <<>>
    /\ spec = <<>>
    /\ request = <<>>
    /\ num_workers = 1
    /\ cache_size = 1
    /\ s_pc = "off"
    /\ shifts = <<>>
    /\ num_processed = 0
    /\ batch = [none |-> TRUE, arrays |-> <<>>]
    /\ returned_batch = [none |-> TRUE, arrays |-> <<>>]
    /\ request_queue = <<>>
    /\ result_queue = <<>>
    /\ p_pc = [w \in Workers |-> "off"]
    /\ p_result = [w \in Workers |-> [ok |-> FALSE, arrays |-> <<>>, call |-> 0]]
    /\ upstream = <<>>
    /\ callback = <<>>
    /\ call_no = 0
    /\ folded = <<>>
    \* no fold is exercised on its own
    /\ f_pc = "off"
    /\ f_a = <<>>
    /\ f_roi_a = [offset |-> <<>>, shape |-> <<>>]
    /\ f_voxel_size = <<>>
    /\ f_chunks = {}
    /\ f_filled = {}
    /\ g_pc = "off"
    /\ g_a = [nodes |-> {}, edges |-> {}]
    /\ g_roi_a = [offset |-> <<>>, shape |-> <<>>]
    /\ g_b = [nodes |-> {}, edges |-> {}]
    /\ g_roi_b = [offset |-> <<>>, shape |-> <<>>]
    /\ g_before = [nodes |-> {}, edges |-> {}]
    /\ g_count = 0

\* provide: reject a non-empty request, else start the workers or call
\* __get_chunks directly
DaisyProvide ==
    /\ d_pc = "call"
    /\ IF RequestRejected(d_request_len)
       THEN /\ d_pc' = "raised"
            /\ UNCHANGED w_pc
       ELSE IF d_num_workers > 1
            THEN /\ d_pc' = "join"
                 /\ w_pc' = [w \in Workers |->
                                IF w <= d_num_workers THEN "acquire" ELSE "off"]
            ELSE /\ d_pc' = "inline"
                 /\ w_pc' = [w_pc EXCEPT ![1] = "acquire"]
    /\ UNCHANGED <<scan_vars, fill_vars, graph_vars>>
    /\ UNCHANGED <<d_reference, d_roi_map, d_num_workers, d_request_len,
                   d_num_blocks, d_next_block, w_block, w_ki,
                   w_chunk_request, d_trace>>

\* block = self.daisy_client.acquire_block(); None ends the worker, else
\* the reference is copied and the for loop over its items starts
AcquireBlock(w) ==
    /\ w_pc[w] = "acquire"
    /\ IF d_next_block > d_num_blocks
       THEN /\ w_pc' = [w_pc EXCEPT ![w] = "returned"]
            /\ UNCHANGED <<d_next_block, w_block, w_ki, w_chunk_request, d_trace>>
       ELSE /\ d_next_block' = d_next_block + 1
            /\ w_block' = [w_block EXCEPT ![w] = d_next_block]
            /\ w_chunk_request' = [w_chunk_request EXCEPT ![w] = ReferenceCopy(d_reference)]
            /\ w_ki' = [w_ki EXCEPT ![w] = 1]
            /\ d_trace' = [d_trace EXCEPT ![w] = Append(@,
                 [op |-> "acquire", block |-> d_next_block,
                  request |-> <<>>, ok |-> TRUE])]
            /\ w_pc' = [w_pc EXCEPT ![w] =
                 IF Len(d_reference) = 0 THEN "acquire" ELSE "for_key"]
    /\ UNCHANGED <<scan_vars, fill_vars, graph_vars>>
    /\ UNCHANGED <<d_reference, d_roi_map, d_num_workers, d_request_len,
                   d_num_blocks, d_pc>>

\* one iteration of the for loop up to and including request_batch: look the
\* key up in roi_map, set the key's ROI, issue the request upstream
RequestBatch(w) ==
    /\ w_pc[w] = "for_key"
    /\ LET key == d_reference[w_ki[w]]
           roi_type == d_roi_map[key]
           chunk_request == [w_chunk_request[w] EXCEPT ![key] = BlockRoi(roi_type, w_block[w])]
       IN IF RoiTypeInvalid(roi_type)
          THEN /\ w_pc' = [w_pc EXCEPT ![w] = "raised"]
               /\ UNCHANGED <<w_chunk_request, d_trace>>
          ELSE \E ok \in BOOLEAN :
               /\ w_chunk_request' = [w_chunk_request EXCEPT ![w] = chunk_request]
               /\ d_trace' = [d_trace EXCEPT ![w] = Append(@,
                    [op |-> "request", block |-> w_block[w],
                     request |-> chunk_request, ok |-> ok])]
               /\ w_pc' = [w_pc EXCEPT ![w] = IF ok THEN "release" ELSE "raised"]
    /\ UNCHANGED <<scan_vars, fill_vars, graph_vars>>
    /\ UNCHANGED <<d_reference, d_roi_map, d_num_workers, d_request_len,
                   d_num_blocks, d_next_block, d_pc, w_block, w_ki>>

\* self.daisy_client.release_block(block, ret=0), the last statement of the
\* for loop's body; after the last key the while loop acquires again
ReleaseBlock(w) ==
    /\ w_pc[w] = "release"
    /\ d_trace' = [d_trace EXCEPT ![w] = Append(@,
         [op |-> "release", block |-> w_block[w],
          request |-> <<>>, ok |-> TRUE])]
    /\ w_ki' = [w_ki EXCEPT ![w] = w_ki[w] + 1]
    /\ w_pc' = [w_pc EXCEPT ![w] =
         IF w_ki[w] + 1 > Len(d_reference) THEN "acquire" ELSE "for_key"]
    /\ UNCHANGED <<scan_vars, fill_vars, graph_vars>>
    /\ UNCHANGED <<d_reference, d_roi_map, d_num_workers, d_request_len,
                   d_num_blocks, d_next_block, d_pc, w_block, w_chunk_request>>

\* num_workers > 1: worker.join() for every worker, then return Batch().
\* A worker process that raised has terminated; join does not look at how.
DaisyJoin ==
    /\ d_pc = "join"
    /\ \A w \in 1..d_num_workers : w_pc[w] \in {"returned", "raised"}
    /\ d_pc' = "returned"
    /\ UNCHANGED <<scan_vars, fill_vars, graph_vars>>
    /\ UNCHANGED <<d_reference, d_roi_map, d_num_workers, d_request_len,
                   d_num_blocks, d_next_block, w_pc, w_block, w_ki,
                   w_chunk_request, d_trace>>

\* num_workers = 1: self.__get_chunks() runs in the caller; its exception
\* leaves provide, its return is followed by return Batch()
DaisyInline ==
    /\ d_pc = "inline"
    /\ w_pc[1] \in {"returned", "raised"}
    /\ d_pc' = w_pc[1]
    /\ UNCHANGED <<scan_vars, fill_vars, graph_vars>>
    /\ UNCHANGED <<d_reference, d_roi_map, d_num_workers, d_request_len,
                   d_num_blocks, d_next_block, w_pc, w_block, w_ki,
                   w_chunk_request, d_trace>>

DaisyNext ==
    \/ DaisyProvide
    \/ \E w \in Workers : AcquireBlock(w)
    \/ \E w \in Workers : RequestBatch(w)
    \/ \E w \in Workers : ReleaseBlock(w)
    \/ DaisyJoin
    \/ DaisyInline

\* ------------------------------------------------------------------------
\* Scan
\* ------------------------------------------------------------------------
Zeros(dims) == [d \in 1..dims |-> 0]

\* the value of a spec's roi when it is None
NoRoi == Roi(<<>>, <<>>)

\* scan_spec = self.spec if the request is empty, else the request
ScanSpec_RequestOnly(sp, req) ==
    [k \in DOMAIN req |-> [has_roi |-> TRUE, roi |-> req[k]]]

ScanSpec(sp, req) ==
    IF DOMAIN req = {}
    THEN [k \in DOMAIN sp |-> [has_roi |-> sp[k].has_roi, roi |-> sp[k].roi]]
    ELSE [k \in DOMAIN req |-> [has_roi |-> TRUE, roi |-> req[k]]]

\* _get_stride: the assertion shape[d] >= lcm_voxel_size[d] fails
StrideError_Never(ref, sp) == FALSE

StrideError(ref, sp) ==
    LET lcm_voxel_size == GetLcmVoxelSize(sp, DOMAIN ref)
    IN \E key \in DOMAIN ref : \E d \in DOMAIN lcm_voxel_size :
           ref[key].shape[d] < lcm_voxel_size[d]

\* _get_stride: the dimension-wise minimum of the reference shapes
GetStride(ref) ==
    LET k0 == CHOOSE k \in DOMAIN ref : TRUE
    IN [d \in DOMAIN ref[k0].shape |->
           CHOOSE m \in {ref[k].shape[d] : k \in DOMAIN ref} :
               \A k \in DOMAIN ref : m <= ref[k].shape[d]]

\* _get_shift_roi: the assertion r <= s for every dimension
ReferenceFits(reference_roi, spec_roi) ==
    \A d \in DOMAIN reference_roi.shape : reference_roi.shape[d] <= spec_roi.shape[d]

\* _get_shift_roi: shift_begin and shift_shape of one key
ShiftRoiOf_OnePast(reference_roi, spec_roi) ==
    Roi(CSub(spec_roi.offset, reference_roi.offset),
        [d \in DOMAIN spec_roi.shape |-> spec_roi.shape[d] - reference_roi.shape[d] + 2])

ShiftRoiOf(reference_roi, spec_roi) ==
    Roi(CSub(spec_roi.offset, reference_roi.offset),
        [d \in DOMAIN spec_roi.shape |-> spec_roi.shape[d] - reference_roi.shape[d] + 1])

\* _get_shift_roi: the loop over self.reference.items(); total carries
\* total_shift_roi (none = it is still None) and whether an error was raised
RECURSIVE ShiftRoiLoop(_, _, _, _)
ShiftRoiLoop(keys, ref, scan_spec, total) ==
    IF keys = <<>> THEN total
    ELSE LET key == Head(keys)
         IN IF key \notin DOMAIN scan_spec \/ ~scan_spec[key].has_roi
            THEN ShiftRoiLoop(Tail(keys), ref, scan_spec, total)
            ELSE IF ~ReferenceFits(ref[key], scan_spec[key].roi)
            THEN [total EXCEPT !.error = TRUE]
            ELSE LET shift_roi == ShiftRoiOf(ref[key], scan_spec[key].roi)
                 IN IF total.none
                    THEN ShiftRoiLoop(Tail(keys), ref, scan_spec,
                             [none |-> FALSE, roi |-> shift_roi, error |-> FALSE])
                    ELSE LET total_shift_roi == RoiIntersect(total.roi, shift_roi)
                         IN IF RoiEmpty(total_shift_roi)
                            THEN [total EXCEPT !.error = TRUE]
                            ELSE ShiftRoiLoop(Tail(keys), ref, scan_spec,
                                     [none |-> FALSE, roi |-> total_shift_roi,
                                      error |-> FALSE])

\* _get_shift_roi: error = an assertion failed or a RuntimeError was raised
GetShiftRoi(ref, scan_spec) ==
    LET total == ShiftRoiLoop(KeyOrder(DOMAIN ref), ref, scan_spec,
                              [none |-> TRUE, roi |-> NoRoi, error |-> FALSE])
    IN [error |-> total.error \/ total.none, roi |-> total.roi]

\* comparison of two Coordinates as tuples
RECURSIVE LexLess(_, _, _)
LexLess(a, b, d) ==
    IF d > Len(a) THEN FALSE
    ELSE IF a[d] # b[d] THEN a[d] < b[d]
    ELSE LexLess(a, b, d + 1)

\* max(min_shift, Coordinate(m - 1 for m in shift_roi.end))
MaxShift_End(shift_roi) ==
    IF LexLess(shift_roi.offset, RoiEnd(shift_roi), 1)
    THEN RoiEnd(shift_roi) ELSE shift_roi.offset

MaxShift(shift_roi) ==
    LET last == [d \in DOMAIN shift_roi.offset |-> RoiEnd(shift_roi)[d] - 1]
    IN IF LexLess(shift_roi.offset, last, 1) THEN last ELSE shift_roi.offset

\* shift[d] += stride[d]; snap to the last possible shift
StepShift(s, stride_d, max_d) == Min(s + stride_d, max_d)

\* _enumerate_shifts: the loop `for d in range(dims)` that counts up
RECURSIVE CountUp_LastFirst(_, _, _, _, _)
CountUp_LastFirst(shift, d, min_shift, max_shift, stride) ==
    LET e == Len(shift) + 1 - d
    IN IF d > Len(shift) THEN shift
       ELSE IF shift[e] >= max_shift[e]
            THEN IF d = Len(shift) THEN shift
                 ELSE CountUp_LastFirst([shift EXCEPT ![e] = min_shift[e]], d + 1,
                                        min_shift, max_shift, stride)
            ELSE [shift EXCEPT ![e] = StepShift(shift[e], stride[e], max_shift[e])]

RECURSIVE CountUp(_, _, _, _, _)
CountUp(shift, d, min_shift, max_shift, stride) ==
    IF d > Len(shift) THEN shift
    ELSE IF shift[d] >= max_shift[d]
         THEN IF d = Len(shift) THEN shift
              ELSE CountUp([shift EXCEPT ![d] = min_shift[d]], d + 1,
                           min_shift, max_shift, stride)
         ELSE [shift EXCEPT ![d] = StepShift(shift[d], stride[d], max_shift[d])]

\* _enumerate_shifts: the while loop
RECURSIVE EnumerateFrom(_, _, _, _, _)
EnumerateFrom(shift, acc, min_shift, max_shift, stride) ==
    IF shift = max_shift THEN Append(acc, shift)
    ELSE EnumerateFrom(CountUp(shift, 1, min_shift, max_shift, stride),
                       Append(acc, shift), min_shift, max_shift, stride)

EnumerateShifts(shift_roi, stride) ==
    EnumerateFrom(shift_roi.offset, <<>>, shift_roi.offset, MaxShift(shift_roi), stride)

\* _shift_request
ShiftRequest(req, shift) == [k \in DOMAIN req |-> RoiShift(req[k], shift)]

\* one array cell: the chunk it was computed in and its voxel position
Cell(chunk_offset, pos) == [chunk |-> chunk_offset, pos |-> pos]

\* a cell of np.zeros
Zero == Cell(<<>>, <<>>)

\* the indices of an array of the given shape
Indices(shape) == RoiPoints(Roi(Zeros(Len(shape)), shape))

\* the array the upstream provider returns for roi
UpstreamArray(roi, voxel_size) ==
    LET voxel_roi == RoiFloorDiv(roi, voxel_size)
    IN [roi |-> roi,
        data |-> [i \in Indices(voxel_roi.shape) |->
                     Cell(roi.offset, CAdd(voxel_roi.offset, i))]]

\* the batch request_batch returns for a request
UpstreamBatch(req, sp) ==
    [ok |-> TRUE, arrays |-> [k \in DOMAIN req |-> UpstreamArray(req[k], sp[k].voxel_size)]]

\* the outcome of a request_batch that raised
UpstreamError == [ok |-> FALSE, arrays |-> <<>>]

\* a worker's result together with the provide call that enqueued its request
Tagged(chunk, call) == [ok |-> chunk.ok, arrays |-> chunk.arrays, call |-> call]

\* for shift in shifts: self.request_queue.put(shifted_reference)
Enqueue_Reversed(queue, shifted, call) ==
    queue \o [i \in 1..Len(shifted) |->
                 [request |-> shifted[Len(shifted) + 1 - i], call |-> call]]

Enqueue_DropLast(queue, shifted, call) ==
    queue \o [i \in 1..(Len(shifted) - 1) |-> [request |-> shifted[i], call |-> call]]

Enqueue(queue, shifted, call) ==
    queue \o [i \in 1..Len(shifted) |-> [request |-> shifted[i], call |-> call]]

\* progress_callback.update(i + 1)
UpdateCount_Index(i) == i

UpdateCount(i) == i + 1

\* Batch() and None
EmptyBatch == [none |-> FALSE, arrays |-> <<>>]

NoBatch == [none |-> TRUE, arrays |-> <<>>]

\* _fill: a[slices_a] = b[slices_b] over the common ROI in voxels
Fill_Unshifted(a, b, roi_a, roi_b, voxel_size) ==
    LET va == RoiFloorDiv(roi_a, voxel_size)
        vb == RoiFloorDiv(roi_b, voxel_size)
        common_roi == RoiIntersect(va, vb)
        common_in_a_roi == RoiSub(common_roi, va.offset)
    IN IF RoiEmpty(common_roi) THEN a
       ELSE [i \in DOMAIN a |->
                IF RoiContainsPoint(common_in_a_roi, i) /\ i \in DOMAIN b
                THEN b[i] ELSE a[i]]

Fill_FromOrigin(a, b, roi_a, roi_b, voxel_size) ==
    LET va == RoiFloorDiv(roi_a, voxel_size)
        vb == RoiFloorDiv(roi_b, voxel_size)
        common_roi == RoiIntersect(va, vb)
        common_in_b_roi == RoiSub(common_roi, vb.offset)
    IN IF RoiEmpty(common_roi) THEN a
       ELSE [i \in DOMAIN a |->
                IF RoiContainsPoint(common_in_b_roi, i) THEN b[i] ELSE a[i]]

Fill(a, b, roi_a, roi_b, voxel_size) ==
    LET va == RoiFloorDiv(roi_a, voxel_size)
        vb == RoiFloorDiv(roi_b, voxel_size)
        common_roi == RoiIntersect(va, vb)
        common_in_a_roi == RoiSub(common_roi, va.offset)
        common_in_b_roi == RoiSub(common_roi, vb.offset)
    IN IF RoiEmpty(common_roi) THEN a
       ELSE [i \in DOMAIN a |->
                IF RoiContainsPoint(common_in_a_roi, i)
                THEN b[CAdd(CSub(i, common_in_a_roi.offset), common_in_b_roi.offset)]
                ELSE a[i]]

\* _setup_batch raises KeyError: a requested key is not in the chunk
SetupError(batch_spec, chunk) == \E k \in DOMAIN batch_spec : k \notin DOMAIN chunk.arrays

\* _setup_batch: one array of zeros per requested key
SetupBatch(batch_spec, sp) ==
    [none |-> FALSE,
     arrays |-> [k \in DOMAIN batch_spec |->
        [roi |-> batch_spec[k],
         data |-> [i \in Indices(CFloorDiv(batch_spec[k].shape, sp[k].voxel_size)) |-> Zero]]]]

\* _add_to_batch: allocate on the first chunk, then fill every requested array
AddToBatch(bat, req, chunk, sp) ==
    LET allocated == IF DOMAIN bat.arrays = {} THEN SetupBatch(req, sp) ELSE bat
    IN [none |-> FALSE,
        arrays |-> [k \in DOMAIN allocated.arrays |->
           IF k \in DOMAIN chunk.arrays
           THEN [roi |-> allocated.arrays[k].roi,
                 data |-> Fill(allocated.arrays[k].data, chunk.arrays[k].data,
                               req[k], chunk.arrays[k].roi, sp[k].voxel_size)]
           ELSE allocated.arrays[k]]]

\* the single-worker loop over the shifts from the i-th on, every upstream
\* request succeeding
RECURSIVE FoldDirect(_, _, _, _, _, _)
FoldDirect(bat, ref, req, sp, enumerated, i) ==
    IF i > Len(enumerated) THEN bat
    ELSE FoldDirect(AddToBatch(bat, req,
                        UpstreamBatch(ShiftRequest(ref, enumerated[i]), sp), sp),
                    ref, req, sp, enumerated, i + 1)

\* the inputs of one family of configurations
ScanInputs(dims, ref_keysets, req_keysets, ref_rois, bound_rois, voxels, pools) ==
    /\ reference \in UNION {[K -> ref_rois] : K \in ref_keysets}
    /\ \E empty_request \in BOOLEAN :
          IF empty_request
          THEN /\ request = <<>>
               /\ spec \in [DOMAIN reference ->
                     {[has_roi |-> TRUE, roi |-> r, voxel_size |-> v] :
                          r \in bound_rois, v \in voxels}
                     \cup {[has_roi |-> FALSE, roi |-> NoRoi, voxel_size |-> v] :
                          v \in voxels}]
          ELSE /\ request \in UNION {[K -> bound_rois] : K \in req_keysets}
               /\ spec \in [DOMAIN reference ->
                     {[has_roi |-> FALSE, roi |-> NoRoi, voxel_size |-> v] :
                          v \in voxels}]
    /\ \E pool \in pools : num_workers = pool[1] /\ cache_size = pool[2]

Coords(dims, lo, hi) == [1..dims -> lo..hi]

\* ROIs at offset 0 or max_offset in each dimension, of shape 1..max_shape
Rois(dims, max_offset, max_shape) ==
    {Roi(o, s) : o \in [1..dims -> {0, max_offset}], s \in Coords(dims, 1, max_shape)}

NonEmptySubsets(S) == (SUBSET S) \ {{}}

\* one dimension, one or two streams, one worker
OneDimInputs ==
    ScanInputs(1, NonEmptySubsets(Keys), NonEmptySubsets(Keys),
               Rois(1, MaxOffset, MaxRefShape), Rois(1, MaxOffset, MaxBoundShape),
               {<<1>>, <<MaxVoxelSize>>}, {<<1, 1>>})

\* two dimensions, one stream of voxel size 1, one worker
TwoDimInputs ==
    ScanInputs(2, {{"a"}}, {{"a"}},
               Rois(2, 0, MaxRefShape), Rois(2, 0, MaxBoundShape),
               {<<1, 1>>}, {<<1, 1>>})

\* the window of shape (4, 4) over the bound of shape (10, 10), one worker
WindowInputs ==
    ScanInputs(2, {{"a"}}, {{"a"}},
               {Roi(<<0, 0>>, <<4, 4>>)}, {Roi(<<0, 0>>, <<10, 10>>)},
               {<<1, 1>>}, {<<1, 1>>})

\* one dimension, one or two streams of voxel size 1, a pool of workers
PoolInputs ==
    ScanInputs(1, {{"a"}, Keys}, {{"a"}, Keys},
               Rois(1, 0, MaxRefShape), Rois(1, MaxOffset, MaxBoundShape),
               {<<1>>}, (2..MaxWorkers) \X (1..MaxCacheSize))

\* the state after __init__ and setup
ScanInit ==
    /\ OneDimInputs \/ TwoDimInputs \/ WindowInputs \/ PoolInputs
    /\ s_pc = "call"
    /\ shifts = <<>>
    /\ num_processed = 0
    /\ batch = NoBatch
    /\ returned_batch = NoBatch
    /\ request_queue = <<>>
    /\ result_queue = <<>>
    /\ p_pc = [w \in Workers |-> IF num_workers > 1 /\ w <= num_workers THEN "idle" ELSE "off"]
    /\ p_result = [w \in Workers |-> Tagged(UpstreamError, 0)]
    /\ upstream = <<>>
    /\ callback = <<>>
    /\ call_no = 1
    /\ folded = <<>>
    \* no DaisyRequestBlocks node in this pipeline
    /\ d_reference = <<>>
    /\ d_roi_map = [k \in Keys |-> "none"]
    /\ d_num_workers = 1
    /\ d_request_len = 0
    /\ d_num_blocks = 0
    /\ d_next_block = 1
    /\ d_pc = "off"
    /\ w_pc = [w \in Workers |-> "off"]
    /\ w_block = [w \in Workers |-> 0]
    /\ w_ki = [w \in Workers |-> 0]
    /\ w_chunk_request = [w \in Workers |-> <<>>]
    /\ d_trace = [w \in Workers |-> <<>>]
    \* no fold is exercised on its own
    /\ f_pc = "off"
    /\ f_a = <<>>
    /\ f_roi_a = NoRoi
    /\ f_voxel_size = <<>>
    /\ f_chunks = {}
    /\ f_filled = {}
    /\ g_pc = "off"
    /\ g_a = [nodes |-> {}, edges |-> {}]
    /\ g_roi_a = NoRoi
    /\ g_b = [nodes |-> {}, edges |-> {}]
    /\ g_roi_b = NoRoi
    /\ g_before = [nodes |-> {}, edges |-> {}]
    /\ g_count = 0

\* provide up to the loops: the stride, the shift ROI, the shifts,
\* progress_callback.start, the empty batch and, with workers, the enqueuing
\* of every shifted reference
ScanProvide ==
    /\ s_pc = "call"
    /\ LET scan_spec == ScanSpec(spec, request)
           shift_roi == GetShiftRoi(reference, scan_spec)
       IN IF StrideError(reference, spec) \/ shift_roi.error
          THEN /\ s_pc' = "raised"
               /\ UNCHANGED <<shifts, batch, request_queue, callback>>
          ELSE LET enumerated == EnumerateShifts(shift_roi.roi, GetStride(reference))
               IN /\ shifts' = enumerated
                  /\ callback' = Append(callback, [op |-> "start", n |-> Len(enumerated)])
                  /\ batch' = EmptyBatch
                  /\ IF num_workers > 1
                     THEN /\ request_queue' = Enqueue(request_queue,
                                [i \in 1..Len(enumerated) |->
                                    ShiftRequest(reference, enumerated[i])], call_no)
                          /\ s_pc' = "dequeue"
                     ELSE /\ s_pc' = "direct"
                          /\ UNCHANGED request_queue
    /\ num_processed' = 0
    /\ folded' = <<>>
    /\ UNCHANGED <<reference, spec, request, num_workers, cache_size,
                   returned_batch, result_queue, p_pc, p_result, upstream,
                   call_no>>
    /\ UNCHANGED <<daisy_vars, fill_vars, graph_vars>>

\* what provide does with a chunk: fold it if the request is not empty, then
\* progress_callback.update(i + 1)
FoldChunk(chunk, chunk_call) ==
    IF ~chunk.ok \/ (DOMAIN request # {} /\ DOMAIN batch.arrays = {} /\ SetupError(request, chunk))
    THEN /\ s_pc' = "raised"
         /\ UNCHANGED <<batch, num_processed, callback, folded>>
    ELSE /\ batch' = IF DOMAIN request # {}
                     THEN AddToBatch(batch, request, chunk, spec) ELSE batch
         /\ num_processed' = num_processed + 1
         /\ callback' = Append(callback,
                [op |-> "update", n |-> UpdateCount(num_processed)])
         /\ folded' = Append(folded,
                [request |-> [k \in DOMAIN chunk.arrays |-> chunk.arrays[k].roi],
                 call |-> chunk_call])
         /\ UNCHANGED s_pc

\* one iteration of the single-worker loop: shift the reference, request the
\* chunk upstream, fold it
GetChunkDirect ==
    /\ s_pc = "direct"
    /\ num_processed < Len(shifts)
    /\ LET shifted_reference == ShiftRequest(reference, shifts[num_processed + 1])
       IN \E ok \in BOOLEAN :
            /\ upstream' = Append(upstream,
                 [request |-> shifted_reference, ok |-> ok, aborted |-> FALSE,
                  call |-> call_no])
            /\ FoldChunk(IF ok THEN UpstreamBatch(shifted_reference, spec)
                         ELSE UpstreamError, call_no)
    /\ UNCHANGED <<reference, spec, request, num_workers, cache_size, shifts,
                   returned_batch, request_queue, result_queue, p_pc, p_result,
                   call_no>>
    /\ UNCHANGED <<daisy_vars, fill_vars, graph_vars>>

\* _worker_get_chunk in a pool worker: take a request from request_queue and
\* request it upstream; the chunk or the exception is the worker's result
WorkerGetChunk(w) ==
    /\ p_pc[w] = "idle"
    /\ request_queue # <<>>
    /\ LET req == Head(request_queue).request
           call == Head(request_queue).call
       IN \E ok \in BOOLEAN :
            /\ upstream' = Append(upstream,
                 [request |-> req, ok |-> ok, aborted |-> s_pc = "raised",
                  call |-> call])
            /\ p_result' = [p_result EXCEPT ![w] =
                 Tagged(IF ok THEN UpstreamBatch(req, spec) ELSE UpstreamError, call)]
    /\ request_queue' = Tail(request_queue)
    /\ p_pc' = [p_pc EXCEPT ![w] = "put"]
    /\ UNCHANGED <<reference, spec, request, num_workers, cache_size, s_pc,
                   shifts, num_processed, batch, returned_batch, result_queue,
                   callback, call_no, folded>>
    /\ UNCHANGED <<daisy_vars, fill_vars, graph_vars>>

\* a pool worker puts its result into the bounded result queue
WorkerPut(w) ==
    /\ p_pc[w] = "put"
    /\ Len(result_queue) < cache_size
    /\ result_queue' = Append(result_queue, p_result[w])
    /\ p_pc' = [p_pc EXCEPT ![w] = "idle"]
    /\ p_result' = [p_result EXCEPT ![w] = Tagged(UpstreamError, 0)]
    /\ UNCHANGED <<reference, spec, request, num_workers, cache_size, s_pc,
                   shifts, num_processed, batch, returned_batch, request_queue,
                   upstream, callback, call_no, folded>>
    /\ UNCHANGED <<daisy_vars, fill_vars, graph_vars>>

\* one iteration of the multi-worker loop: chunk = self.workers.get(), which
\* raises the exception of a failed worker job, then fold the chunk
GetChunkFromPool ==
    /\ s_pc = "dequeue"
    /\ num_processed < Len(shifts)
    /\ result_queue # <<>>
    /\ result_queue' = Tail(result_queue)
    /\ FoldChunk(Head(result_queue), Head(result_queue).call)
    /\ UNCHANGED <<reference, spec, request, num_workers, cache_size, shifts,
                   returned_batch, request_queue, p_pc, p_result, upstream,
                   call_no>>
    /\ UNCHANGED <<daisy_vars, fill_vars, graph_vars>>

\* after the loop: progress_callback.stop(), self.batch = None, return batch
ScanReturn ==
    /\ s_pc \in {"direct", "dequeue"}
    /\ num_processed = Len(shifts)
    /\ callback' = Append(callback, [op |-> "stop", n |-> 0])
    /\ returned_batch' = batch
    /\ batch' = NoBatch
    /\ s_pc' = "returned"
    /\ UNCHANGED <<reference, spec, request, num_workers, cache_size, shifts,
                   num_processed, request_queue, result_queue, p_pc, p_result,
                   upstream, call_no, folded>>
    /\ UNCHANGED <<daisy_vars, fill_vars, graph_vars>>

ScanNext ==
    \/ ScanProvide
    \/ GetChunkDirect
    \/ \E w \in Workers : WorkerGetChunk(w)
    \/ \E w \in Workers : WorkerPut(w)
    \/ GetChunkFromPool
    \/ ScanReturn

\* the caller calls provide once more on the same node, with the same request
ProvideAgain ==
    /\ s_pc \in {"returned", "raised"}
    /\ call_no < MaxCalls
    /\ s_pc' = "call"
    /\ call_no' = call_no + 1
    /\ returned_batch' = NoBatch
    /\ UNCHANGED <<reference, spec, request, num_workers, cache_size, shifts,
                   num_processed, batch, request_queue, result_queue, p_pc,
                   p_result, upstream, callback, folded>>
    /\ UNCHANGED <<daisy_vars, fill_vars, graph_vars>>

ScanCallsNext ==
    \/ ScanNext
    \/ ProvideAgain

\* one stream and a window of one voxel over bounds of more chunks than the
\* workers and the result queue hold together, for the largest pool with the
\* smallest result queue and the smallest pool with the largest result queue
BackpressureInputs ==
    ScanInputs(1, {{"a"}}, {{"a"}}, {Roi(<<0>>, <<1>>)},
               {Roi(<<0>>, <<MaxWorkers + 2>>)},
               {<<1>>}, {<<MaxWorkers, 1>>, <<2, MaxCacheSize>>})

\* the state after __init__ and setup of a Scan with num_workers > 1
ScanPoolInit ==
    /\ BackpressureInputs
    /\ s_pc = "call"
    /\ shifts = <<>>
    /\ num_processed = 0
    /\ batch = NoBatch
    /\ returned_batch = NoBatch
    /\ request_queue = <<>>
    /\ result_queue = <<>>
    /\ p_pc = [w \in Workers |-> IF w <= num_workers THEN "idle" ELSE "off"]
    /\ p_result = [w \in Workers |-> Tagged(UpstreamError, 0)]
    /\ upstream = <<>>
    /\ callback = <<>>
    /\ call_no = 1
    /\ folded = <<>>
    \* no DaisyRequestBlocks node in this pipeline
    /\ d_reference = <<>>
    /\ d_roi_map = [k \in Keys |-> "none"]
    /\ d_num_workers = 1
    /\ d_request_len = 0
    /\ d_num_blocks = 0
    /\ d_next_block = 1
    /\ d_pc = "off"
    /\ w_pc = [w \in Workers |-> "off"]
    /\ w_block = [w \in Workers |-> 0]
    /\ w_ki = [w \in Workers |-> 0]
    /\ w_chunk_request = [w \in Workers |-> <<>>]
    /\ d_trace = [w \in Workers |-> <<>>]
    \* no fold is exercised on its own
    /\ f_pc = "off"
    /\ f_a = <<>>
    /\ f_roi_a = NoRoi
    /\ f_voxel_size = <<>>
    /\ f_chunks = {}
    /\ f_filled = {}
    /\ g_pc = "off"
    /\ g_a = [nodes |-> {}, edges |-> {}]
    /\ g_roi_a = NoRoi
    /\ g_b = [nodes |-> {}, edges |-> {}]
    /\ g_roi_b = NoRoi
    /\ g_before = [nodes |-> {}, edges |-> {}]
    /\ g_count = 0

\* the steps of a scan with num_workers > 1
ScanPoolNext ==
    \/ ScanProvide
    \/ \E w \in Workers : WorkerGetChunk(w)
    \/ \E w \in Workers : WorkerPut(w)
    \/ GetChunkFromPool
    \/ ScanReturn

\* the thread running provide keeps running, and every pool worker that can
\* take a request or put its result eventually does
PoolFairness ==
    /\ WF_vars(ScanProvide)
    /\ WF_vars(GetChunkFromPool)
    /\ WF_vars(ScanReturn)
    /\ \A w \in Workers : WF_vars(WorkerGetChunk(w)) /\ WF_vars(WorkerPut(w))

\* ------------------------------------------------------------------------
\* Scan._fill on its own: the chunks of a partition, filled in in any order
\* ------------------------------------------------------------------------

\* the cuts of 0..n into consecutive intervals, as sets of interval starts
Cuts(n) == {c \in SUBSET (0..(n - 1)) : 0 \in c}

\* the end of the interval that starts at lo, for the interval starts c of 0..n
CutEnd(c, lo, n) ==
    LET later == {x \in c \cup {n} : x > lo}
    IN CHOOSE x \in later : \A y \in later : x <= y

\* the tiles of roi (in voxels) cut along every dimension, scaled to world units
Tiles(roi, cuts, voxel_size) ==
    {Roi([d \in DOMAIN roi.offset |-> (roi.offset[d] + lo[d]) * voxel_size[d]],
         [d \in DOMAIN roi.offset |->
             (CutEnd(cuts[d], lo[d], roi.shape[d]) - lo[d]) * voxel_size[d]]) :
        lo \in {l \in [DOMAIN roi.offset -> 0..MaxBoundShape] :
                   \A d \in DOMAIN roi.offset : l[d] \in cuts[d]}}

\* a ROI given in voxels, in world units
Scaled(roi, voxel_size) ==
    Roi([d \in DOMAIN roi.offset |-> roi.offset[d] * voxel_size[d]],
        [d \in DOMAIN roi.offset |-> roi.shape[d] * voxel_size[d]])

\* a destination of zeros, its ROI, a voxel size and a partition of the ROI
FillInputs(rois, voxels) ==
    \E roi \in rois : \E v \in voxels :
        \E cuts \in {c \in [DOMAIN roi.offset -> SUBSET (0..MaxBoundShape)] :
                        \A d \in DOMAIN roi.offset : c[d] \in Cuts(roi.shape[d])} :
            /\ f_voxel_size = [d \in DOMAIN roi.offset |-> v]
            /\ f_roi_a = Scaled(roi, f_voxel_size)
            /\ f_chunks = Tiles(roi, cuts, f_voxel_size)
            /\ f_a = [i \in Indices(roi.shape) |-> Zero]

FillInit ==
    /\ \/ FillInputs(Rois(1, MaxOffset, MaxBoundShape), {1, MaxVoxelSize})
       \/ FillInputs(Rois(2, MaxOffset, MaxRefShape), {1, MaxVoxelSize})
    /\ f_pc = "filling"
    /\ f_filled = {}
    \* no DaisyRequestBlocks node
    /\ d_reference = <<>>
    /\ d_roi_map = [k \in Keys |-> "none"]
    /\ d_num_workers = 1
    /\ d_request_len = 0
    /\ d_num_blocks = 0
    /\ d_next_block = 1
    /\ d_pc = "off"
    /\ w_pc = [w \in Workers |-> "off"]
    /\ w_block = [w \in Workers |-> 0]
    /\ w_ki = [w \in Workers |-> 0]
    /\ w_chunk_request = [w \in Workers |-> <<>>]
    /\ d_trace = [w \in Workers |-> <<>>]
    \* no call of provide
    /\ reference = <<>>
    /\ spec = <<>>
    /\ request = <<>>
    /\ num_workers = 1
    /\ cache_size = 1
    /\ s_pc = "off"
    /\ shifts = <<>>
    /\ num_processed = 0
    /\ batch = NoBatch
    /\ returned_batch = NoBatch
    /\ request_queue = <<>>
    /\ result_queue = <<>>
    /\ p_pc = [w \in Workers |-> "off"]
    /\ p_result = [w \in Workers |-> Tagged(UpstreamError, 0)]
    /\ upstream = <<>>
    /\ callback = <<>>
    /\ call_no = 0
    /\ folded = <<>>
    \* no graph fold
    /\ g_pc = "off"
    /\ g_a = [nodes |-> {}, edges |-> {}]
    /\ g_roi_a = NoRoi
    /\ g_b = [nodes |-> {}, edges |-> {}]
    /\ g_roi_b = NoRoi
    /\ g_before = [nodes |-> {}, edges |-> {}]
    /\ g_count = 0

\* self._fill(a, chunk array, roi_a, chunk roi, voxel_size) for a chunk that
\* has not been filled in yet, whichever completes next
FillChunk ==
    /\ f_pc = "filling"
    /\ \E c \in f_chunks \ f_filled :
         /\ f_a' = Fill(f_a, UpstreamArray(c, f_voxel_size).data, f_roi_a, c,
                        f_voxel_size)
         /\ f_filled' = f_filled \cup {c}
         /\ f_pc' = IF f_filled \cup {c} = f_chunks THEN "done" ELSE "filling"
    /\ UNCHANGED <<f_roi_a, f_voxel_size, f_chunks>>
    /\ UNCHANGED <<daisy_vars, scan_vars, graph_vars>>

FillNext == FillChunk

\* ------------------------------------------------------------------------
\* Scan._fill_points on its own: chunk graphs folded into one graph
\* A Graph is a record [nodes, edges]: nodes are records [id, location,
\* temporary] with distinct ids, edges are records [u, v] of node ids.
\* ------------------------------------------------------------------------
NodeIds == {1, 2}

Locations == {<<0>>, <<1>>, <<2>>}

GraphRois == {Roi(<<0>>, <<1>>), Roi(<<0>>, <<2>>), Roi(<<1>>, <<1>>), Roi(<<2>>, <<1>>)}

\* Graph(nodes=[], edges=[])
EmptyGraph == [nodes |-> {}, edges |-> {}]

Node(id, location, temporary) ==
    [id |-> id, location |-> location, temporary |-> temporary]

\* the graphs a chunk can carry: distinct ids, every edge between its nodes
ChunkGraphs ==
    {g \in {[nodes |-> {Node(id, attrs[id][1], attrs[id][2]) : id \in DOMAIN attrs},
             edges |-> edges] :
               attrs \in UNION {[ids -> Locations \X BOOLEAN] : ids \in SUBSET NodeIds},
               edges \in SUBSET {[u |-> 1, v |-> 2]}} :
        \A e \in g.edges :
            (\E n \in g.nodes : n.id = e.u) /\ (\E n \in g.nodes : n.id = e.v)}

\* Graph.contains(node_id)
GraphContains(g, id) == \E n \in g.nodes : n.id = id

\* Graph.node(id)
GraphNode(g, id) == CHOOSE n \in g.nodes : n.id = id

\* Graph.add_node(node): the node replaces a node of the same id
AddNode(g, node) ==
    [nodes |-> {n \in g.nodes : n.id # node.id} \cup {node}, edges |-> g.edges]

\* Graph.add_edge(e)
AddEdge(g, e) == [nodes |-> g.nodes, edges |-> g.edges \cup {e}]

\* `common_roi is None`: intersect returns a Roi, empty if the two are disjoint
CommonRoiIsNone(common_roi) == FALSE

\* `not node.temporary and roi_a.contains(node.location)`
NodeCopied_Temporary(node, roi_a) == RoiContainsPoint(roi_a, node.location)

NodeCopied(node, roi_a) == ~node.temporary /\ RoiContainsPoint(roi_a, node.location)

\* the condition under which an edge of b is added to a
EdgeCopied(a, b, e) ==
    LET bu == GraphNode(b, e.u)
        bv == GraphNode(b, e.v)
    IN /\ ~bu.temporary
       /\ ~bv.temporary
       /\ GraphContains(a, bu.id)
       /\ GraphContains(a, bv.id)

\* the loop `for node in b.nodes`
RECURSIVE AddNodes(_, _, _)
AddNodes(a, nodes, roi_a) ==
    IF nodes = {} THEN a
    ELSE LET node == CHOOSE n \in nodes : TRUE
         IN AddNodes(IF NodeCopied(node, roi_a) THEN AddNode(a, node) ELSE a,
                     nodes \ {node}, roi_a)

\* the loop `for e in b.edges`
RECURSIVE AddEdges(_, _, _)
AddEdges(a, b, edges) ==
    IF edges = {} THEN a
    ELSE LET e == CHOOSE x \in edges : TRUE
         IN AddEdges(IF EdgeCopied(a, b, e) THEN AddEdge(a, e) ELSE a,
                     b, edges \ {e})

\* _fill_points(a, b, roi_a, roi_b)
FillPoints(a, b, roi_a, roi_b) ==
    LET common_roi == RoiIntersect(roi_a, roi_b)
    IN IF CommonRoiIsNone(common_roi) THEN a
       ELSE AddEdges(AddNodes(a, b.nodes, roi_a), b, b.edges)

\* the graph _setup_batch allocates, and the ROI requested for it
GraphInit ==
    /\ g_roi_a \in GraphRois
    /\ g_a = EmptyGraph
    /\ g_b = EmptyGraph
    /\ g_roi_b = NoRoi
    /\ g_before = EmptyGraph
    /\ g_count = 0
    /\ g_pc = "folding"
    \* no DaisyRequestBlocks node
    /\ d_reference = <<>>
    /\ d_roi_map = [k \in Keys |-> "none"]
    /\ d_num_workers = 1
    /\ d_request_len = 0
    /\ d_num_blocks = 0
    /\ d_next_block = 1
    /\ d_pc = "off"
    /\ w_pc = [w \in Workers |-> "off"]
    /\ w_block = [w \in Workers |-> 0]
    /\ w_ki = [w \in Workers |-> 0]
    /\ w_chunk_request = [w \in Workers |-> <<>>]
    /\ d_trace = [w \in Workers |-> <<>>]
    \* no call of provide
    /\ reference = <<>>
    /\ spec = <<>>
    /\ request = <<>>
    /\ num_workers = 1
    /\ cache_size = 1
    /\ s_pc = "off"
    /\ shifts = <<>>
    /\ num_processed = 0
    /\ batch = NoBatch
    /\ returned_batch = NoBatch
    /\ request_queue = <<>>
    /\ result_queue = <<>>
    /\ p_pc = [w \in Workers |-> "off"]
    /\ p_result = [w \in Workers |-> Tagged(UpstreamError, 0)]
    /\ upstream = <<>>
    /\ callback = <<>>
    /\ call_no = 0
    /\ folded = <<>>
    \* no array fold
    /\ f_pc = "off"
    /\ f_a = <<>>
    /\ f_roi_a = NoRoi
    /\ f_voxel_size = <<>>
    /\ f_chunks = {}
    /\ f_filled = {}

\* self._fill_points(self.batch.graphs[key], chunk graph, roi_a, chunk roi)
\* for the graph of the next chunk
FillPointsCall ==
    /\ g_pc = "folding"
    /\ g_count < MaxFolds
    /\ \E b \in ChunkGraphs : \E roi_b \in GraphRois :
         /\ g_a' = FillPoints(g_a, b, g_roi_a, roi_b)
         /\ g_b' = b
         /\ g_roi_b' = roi_b
    /\ g_before' = g_a
    /\ g_count' = g_count + 1
    /\ UNCHANGED <<g_pc, g_roi_a>>
    /\ UNCHANGED <<daisy_vars, scan_vars, fill_vars>>

GraphNext == FillPointsCall

\* ------------------------------------------------------------------------
\* Specifications
\* ------------------------------------------------------------------------

SpecDaisy == DaisyInit /\ [][DaisyNext]_vars

SpecScan == ScanInit /\ [][ScanNext]_vars

SpecScanCalls == ScanInit /\ [][ScanCallsNext]_vars

SpecScanPool == ScanPoolInit /\ [][ScanPoolNext]_vars /\ PoolFairness

SpecFill == FillInit /\ [][FillNext]_vars

SpecGraph == GraphInit /\ [][GraphNext]_vars

\* ------------------------------------------------------------------------
\* Properties of DaisyRequestBlocks (checked under SpecDaisy)
\* ------------------------------------------------------------------------

\* the calls of kind op made for block b, as <<worker, position>> pairs
DaisyCalls(op, b) ==
    {c \in UNION {{<<w, i>> : i \in DOMAIN d_trace[w]} : w \in Workers} :
        d_trace[c[1]][c[2]].op = op /\ d_trace[c[1]][c[2]].block = b}

DaisyFinished == d_pc \in {"returned", "raised"}

UpstreamFailed ==
    \E w \in Workers : \E i \in DOMAIN d_trace[w] :
        d_trace[w][i].op = "request" /\ ~d_trace[w][i].ok

\* C1: every block returned by acquire_block is released exactly once: never
\* more than once at any time, and exactly once when provide has finished,
\* whether the upstream request succeeded or not and for any number of keys.
C1_ReleasedExactlyOnce ==
    \A b \in 1..MaxBlocks :
        DaisyCalls("acquire", b) # {} =>
            /\ Cardinality(DaisyCalls("release", b)) <= 1
            /\ DaisyFinished => Cardinality(DaisyCalls("release", b)) = 1

\* C4: with num_workers > 1, when provide has returned, every block handed
\* out has had its upstream request issued by exactly one worker (none
\* skipped, none taken by two workers), and every one of the workers has
\* observed exhaustion.
C4_EachBlockOnceAllExhausted ==
    (d_num_workers > 1 /\ d_pc = "returned") =>
        /\ \A b \in 1..MaxBlocks :
               DaisyCalls("acquire", b) # {} =>
                   Cardinality({c[1] : c \in DaisyCalls("request", b)}) = 1
        /\ \A w \in 1..d_num_workers : w_pc[w] = "returned"

\* C5: an error raised by the upstream provider reaches the caller of
\* provide: provide never returns normally after an upstream request failed,
\* for num_workers = 1 and for num_workers > 1.
C5_UpstreamErrorReachesCaller ==
    UpstreamFailed => d_pc # "returned"

\* C7: a non-empty request makes provide fail before anything else happens:
\* no block is acquired, no upstream request is issued, no worker is started.
C7_NonEmptyRequestRejected ==
    d_request_len # 0 =>
        /\ d_pc \in {"call", "raised"}
        /\ d_next_block = 1
        /\ \A w \in Workers : w_pc[w] = "off" /\ d_trace[w] = <<>>

C7_Witness ==
    d_request_len # 0 /\ d_pc = "raised" /\ d_num_workers > 1 /\ d_num_blocks > 0

\* the configuration of C8: one worker, one stream mapped to read_roi
C8_Scenario ==
    /\ d_num_workers = 1
    /\ d_request_len = 0
    /\ Len(d_reference) = 1
    /\ d_roi_map[d_reference[1]] = "read_roi"

\* C8: in that configuration the calls are acquire(1), request(1),
\* release(1), acquire(2), ...: the i-th request carries the read_roi of the
\* i-th block and lies between the acquisition of block i and of block i+1;
\* when provide returns, exactly d_num_blocks requests have been issued.
C8_OneRequestPerBlockInOrder ==
    C8_Scenario =>
        LET t == d_trace[1]
            ops == <<"acquire", "request", "release">>
        IN /\ \A i \in DOMAIN t :
                  /\ t[i].block = ((i - 1) \div 3) + 1
                  /\ t[i].op = ops[((i - 1) % 3) + 1]
                  /\ t[i].op = "request" =>
                        t[i].request = [k \in {d_reference[1]} |->
                                           [kind |-> "read_roi", block |-> t[i].block]]
           /\ d_pc = "returned" =>
                  /\ Len(t) = 3 * d_num_blocks
                  /\ \A i \in DOMAIN t : t[i].ok

C8_Witness ==
    C8_Scenario /\ d_pc = "returned" /\ d_num_blocks = 3 /\ Len(d_trace[1]) = 9

\* ------------------------------------------------------------------------
\* Properties of Scan (checked under SpecScan)
\* ------------------------------------------------------------------------

\* the keys of the reference that have a bounded ROI in the scan spec
BoundedKeys ==
    {k \in DOMAIN reference :
        k \in DOMAIN ScanSpec(spec, request) /\ ScanSpec(spec, request)[k].has_roi}

\* the bounding ROI of a bounded key
BoundOf(k) == ScanSpec(spec, request)[k].roi

ScanUpstreamFailed == \E i \in DOMAIN upstream : ~upstream[i].ok

\* C2: when provide returns a batch for a non-empty request, every point of
\* the requested ROI of every key present in the reference and in the
\* request lies in the ROI some upstream sub-request had for that key.
C2_RequestedRoisCovered ==
    (s_pc = "returned" /\ DOMAIN request # {}) =>
        \A k \in DOMAIN reference \cap DOMAIN request :
            \A p \in RoiPoints(request[k]) :
                \E i \in DOMAIN upstream :
                    RoiContainsPoint(upstream[i].request[k], p)

\* C3: for every enumerated shift and every key with a bounded ROI, the
\* shifted reference ROI is contained in the bounding ROI; so is the ROI of
\* every sub-request enqueued or issued upstream.
C3_SubRequestsInsideBound ==
    \A k \in BoundedKeys :
        /\ \A i \in DOMAIN shifts :
               RoiContainsRoi(BoundOf(k), RoiShift(reference[k], shifts[i]))
        /\ \A i \in DOMAIN request_queue :
               RoiContainsRoi(BoundOf(k), request_queue[i].request[k])
        /\ \A i \in DOMAIN upstream :
               RoiContainsRoi(BoundOf(k), upstream[i].request[k])

C3_Witness ==
    /\ s_pc = "returned"
    /\ Cardinality(BoundedKeys) = 2
    /\ Len(upstream) >= 2
    /\ \E k \in BoundedKeys :
           RoiEnd(upstream[Len(upstream)].request[k]) = RoiEnd(BoundOf(k))
    /\ \E k \in BoundedKeys :
           RoiEnd(upstream[Len(upstream)].request[k]) # RoiEnd(BoundOf(k))

\* C6: when the upstream request of a chunk fails the scan is aborted: no
\* batch is returned, and no upstream request of that scan is issued once
\* the failure has been raised to the caller of provide.
C6_FailedChunkAbortsScan ==
    /\ ScanUpstreamFailed => (s_pc # "returned" /\ returned_batch = NoBatch)
    /\ \A i \in DOMAIN upstream : ~upstream[i].aborted

Ceil(a, b) == (a + b - 1) \div b

RECURSIVE Product(_)
Product(seq) == IF seq = <<>> THEN 1 ELSE Head(seq) * Product(Tail(seq))

\* the configuration of C9: one worker, one array stream of voxel size 1,
\* requested with a bounded ROI
C9_Scenario ==
    /\ num_workers = 1
    /\ Cardinality(DOMAIN reference) = 1
    /\ DOMAIN request = DOMAIN reference
    /\ \A k \in DOMAIN reference : \A d \in DOMAIN spec[k].voxel_size :
           spec[k].voxel_size[d] = 1

\* C9: in that configuration a scan that returns has issued exactly the
\* product over the dimensions of ceil(B_d / R_d) sub-requests, and the
\* returned array has shape B and no cell that was never written.
C9_ChunkCountAndNoGaps ==
    (C9_Scenario /\ s_pc = "returned") =>
        \A k \in DOMAIN reference :
            LET B == request[k].shape
                R == reference[k].shape
            IN /\ Len(upstream) = Product([d \in DOMAIN B |-> Ceil(B[d], R[d])])
               /\ DOMAIN returned_batch.arrays[k].data = Indices(B)
               /\ \A i \in Indices(B) : returned_batch.arrays[k].data[i] # Zero

C9_Witness ==
    /\ C9_Scenario
    /\ s_pc = "returned"
    /\ \A k \in DOMAIN reference :
           /\ request[k].shape = <<10, 10>>
           /\ reference[k].shape = <<4, 4>>
    /\ Len(upstream) = 9

\* a reference ROI is smaller than the least common multiple of the voxel
\* sizes in some dimension
ShapeBelowLcm ==
    \E k \in DOMAIN reference : \E d \in DOMAIN reference[k].shape :
        reference[k].shape[d] < GetLcmVoxelSize(spec, DOMAIN reference)[d]

\* no shift places every bounded key's reference ROI inside its bound
NoCommonShift ==
    /\ BoundedKeys # {}
    /\ LET k0 == CHOOSE k \in BoundedKeys : TRUE
           dims == DOMAIN reference[k0].offset
           begins == {BoundOf(k).offset[d] - reference[k].offset[d] :
                         k \in BoundedKeys, d \in dims}
           ends == {RoiEnd(BoundOf(k))[d] : k \in BoundedKeys, d \in dims}
           lo == CHOOSE m \in begins : \A n \in begins : m <= n
           hi == CHOOSE m \in ends : \A n \in ends : m >= n
       IN ~\E shift \in [dims -> lo..hi] :
              \A k \in BoundedKeys :
                  RoiContainsRoi(BoundOf(k), RoiShift(reference[k], shift))

\* C10: if a reference shape is below the voxel-size LCM, or no shift fits
\* all bounded streams, or no stream is bounded, provide fails before any
\* upstream request is issued or enqueued for the workers.
C10_ConfigurationErrorsFirst ==
    (ShapeBelowLcm \/ NoCommonShift \/ BoundedKeys = {}) =>
        /\ s_pc \in {"call", "raised"}
        /\ upstream = <<>>
        /\ request_queue = <<>>
        /\ result_queue = <<>>

C10_Witness ==
    /\ s_pc = "raised"
    /\ num_workers > 1
    /\ ~ShapeBelowLcm
    /\ NoCommonShift
    /\ \A k \in BoundedKeys : ReferenceFits(reference[k], BoundOf(k))
    /\ Cardinality(BoundedKeys) = 2

\* the bounded ROIs of the upstream spec, as a scan spec
UpstreamBounds ==
    [k \in {x \in DOMAIN spec : spec[x].has_roi} |->
        [has_roi |-> TRUE, roi |-> spec[k].roi]]

\* the shifted references in enumeration order, for a sequence of shifts
ShiftedReferences(enumerated) ==
    [i \in DOMAIN enumerated |-> ShiftRequest(reference, enumerated[i])]

\* C11: with an empty request Scan scans the upstream ROIs: its shifts are
\* the shifts a request for exactly the bounded upstream ROIs gets; one
\* upstream request is issued per shift (in enumeration order with one
\* worker, each shift once with several), the accumulator is never set up or
\* filled, and the batch returned is empty.
C11_EmptyRequestScansUpstream ==
    (DOMAIN request = {} /\ s_pc \notin {"off", "call"}) =>
        LET shift_roi == GetShiftRoi(reference, UpstreamBounds)
            expected == EnumerateShifts(shift_roi.roi, GetStride(reference))
        IN IF ShapeBelowLcm \/ shift_roi.error
           THEN s_pc = "raised" /\ upstream = <<>>
           ELSE /\ shifts = expected
                /\ batch \in {EmptyBatch, NoBatch}
                /\ Len(upstream) <= Len(expected)
                /\ \A i \in DOMAIN upstream :
                       \E j \in DOMAIN expected :
                           /\ upstream[i].request = ShiftedReferences(expected)[j]
                           /\ num_workers = 1 => j = i
                /\ \A i, j \in DOMAIN upstream :
                       upstream[i].request = upstream[j].request => i = j
                /\ s_pc = "returned" =>
                       /\ Len(upstream) = Len(expected)
                       /\ returned_batch = EmptyBatch

C11_Witness ==
    /\ DOMAIN request = {}
    /\ s_pc = "returned"
    /\ Len(upstream) = 3
    /\ returned_batch = EmptyBatch

\* the calls of the progress callback of a scan over n chunks of which k
\* have been obtained
ExpectedCallbacks(n, k, stopped) ==
    <<[op |-> "start", n |-> n]>>
        \o [i \in 1..k |-> [op |-> "update", n |-> i]]
        \o (IF stopped THEN <<[op |-> "stop", n |-> 0]>> ELSE <<>>)

\* C12: the callback sees start(n) before any chunk is requested, then
\* update(k) after the k-th chunk has been obtained and folded, k = 1, 2,
\* ..., and stop() once after update(n), when provide returns; nothing else,
\* for one worker and for several.
C12_CallbackOrder ==
    /\ s_pc \in {"off", "call"} => callback = <<>>
    /\ s_pc \in {"direct", "dequeue"} =>
           callback = ExpectedCallbacks(Len(shifts), num_processed, FALSE)
    /\ s_pc = "returned" =>
           /\ num_processed = Len(shifts)
           /\ callback = ExpectedCallbacks(Len(shifts), Len(shifts), TRUE)
    /\ s_pc = "raised" =>
           \/ callback = <<>>
           \/ callback = ExpectedCallbacks(Len(shifts), num_processed, FALSE)
    /\ num_processed = Len(folded)
    /\ upstream # <<>> => callback # <<>>

C12_Witness ==
    /\ s_pc = "returned"
    /\ num_workers > 1
    /\ callback = ExpectedCallbacks(3, 3, TRUE)

\* ------------------------------------------------------------------------
\* Properties of Scan._fill (checked under SpecFill)
\* ------------------------------------------------------------------------

\* the chunks of the partition that cover the voxel at index i of the buffer
Covering(i) ==
    LET voxel == CAdd(RoiFloorDiv(f_roi_a, f_voxel_size).offset, i)
    IN {c \in f_chunks :
           RoiContainsPoint(c, [d \in DOMAIN voxel |-> voxel[d] * f_voxel_size[d]])}

\* C13: for chunks that tile the destination ROI without overlap (all ROIs
\* multiples of the voxel size), whatever the order in which they are
\* filled in, every cell is covered by exactly one chunk and holds that
\* chunk's value once the chunk has been filled in (zero before); so the
\* final buffer is the same for every order.
C13_FillOrderInsensitive ==
    f_pc # "off" =>
        \A i \in DOMAIN f_a :
            /\ Cardinality(Covering(i)) = 1
            /\ \A c \in Covering(i) :
                   f_a[i] = IF c \in f_filled
                            THEN Cell(c.offset,
                                      CAdd(RoiFloorDiv(f_roi_a, f_voxel_size).offset, i))
                            ELSE Zero

C13_Witness ==
    /\ f_pc = "done"
    /\ Len(f_voxel_size) = 2
    /\ f_voxel_size[1] > 1
    /\ f_roi_a.offset # <<0, 0>>
    /\ Cardinality(f_chunks) = 4
    /\ \A i \in DOMAIN f_a : f_a[i] # Zero

\* ------------------------------------------------------------------------
\* Properties of Scan._fill_points (checked under SpecGraph)
\* ------------------------------------------------------------------------

\* an edge of the last chunk with an endpoint that is temporary in the chunk
\* or absent from the accumulated graph
EdgeBlocked(e) ==
    \/ GraphNode(g_b, e.u).temporary
    \/ GraphNode(g_b, e.v).temporary
    \/ ~GraphContains(g_a, e.u)
    \/ ~GraphContains(g_a, e.v)

\* C14: after any sequence of _fill_points calls the accumulated graph has
\* no temporary node and every edge of it has both endpoints in it; an edge
\* of the last chunk with a temporary or absent endpoint was not copied by
\* that call.
C14_NoTemporaryNoDanglingEdge ==
    /\ \A n \in g_a.nodes : ~n.temporary
    /\ \A e \in g_a.edges : GraphContains(g_a, e.u) /\ GraphContains(g_a, e.v)
    /\ \A e \in g_b.edges :
           (EdgeBlocked(e) /\ e \notin g_before.edges) => e \notin g_a.edges

C14_Witness ==
    /\ g_count = 2
    /\ g_before.nodes # {}
    /\ \E e \in g_b.edges :
           /\ ~GraphNode(g_b, e.u).temporary
           /\ ~GraphNode(g_b, e.v).temporary
           /\ GraphContains(g_a, e.u)
           /\ ~GraphContains(g_a, e.v)
           /\ e \notin g_a.edges

\* C18: a node of the chunk is copied by _fill_points only if it is not
\* temporary and lies in the intersection of the accumulator's ROI and the
\* chunk's ROI.
C18_NodesCopiedFromIntersection ==
    \A n \in g_b.nodes :
        (n \in g_a.nodes /\ n \notin g_before.nodes) =>
            /\ ~n.temporary
            /\ RoiContainsPoint(RoiIntersect(g_roi_a, g_roi_b), n.location)

\* ------------------------------------------------------------------------
\* Further properties of DaisyRequestBlocks (checked under SpecDaisy)
\* ------------------------------------------------------------------------

\* C15: every upstream request issued for a block carries, for every key of
\* the reference, the block's read_roi or write_roi as roi_map dictates; no
\* key still carries the reference's own ROI.
C15_RequestsFullyRemapped ==
    \A w \in Workers : \A i \in DOMAIN d_trace[w] :
        d_trace[w][i].op = "request" =>
            \A k \in DOMAIN d_trace[w][i].request :
                d_trace[w][i].request[k] = BlockRoi(d_roi_map[k], d_trace[w][i].block)

\* ------------------------------------------------------------------------
\* Properties of Scan._enumerate_shifts (checked under SpecScan)
\* ------------------------------------------------------------------------

\* the arguments provide passes to _enumerate_shifts
ShiftRoi == GetShiftRoi(reference, ScanSpec(spec, request)).roi

Stride == GetStride(reference)

\* the last valid offset of a shift ROI
LastShift(shift_roi) ==
    [d \in DOMAIN shift_roi.offset |-> RoiEnd(shift_roi)[d] - 1]

\* C16: the enumerated shifts start at the shift ROI's offset, all lie
\* inside the shift ROI, end at the last valid offset in every dimension,
\* and in each dimension the visited values are the offset plus multiples of
\* the stride below the last valid offset, and the last valid offset itself.
C16_ShiftsCoverShiftRoi ==
    shifts # <<>> =>
        LET shift_roi == ShiftRoi
            stride == Stride
            last == LastShift(shift_roi)
        IN /\ shifts[1] = shift_roi.offset
           /\ \A i \in DOMAIN shifts : RoiContainsPoint(shift_roi, shifts[i])
           /\ shifts[Len(shifts)] = last
           /\ \A d \in DOMAIN stride :
                  {shifts[i][d] : i \in DOMAIN shifts} =
                      {x \in shift_roi.offset[d]..last[d] :
                          \/ (x - shift_roi.offset[d]) % stride[d] = 0
                          \/ x = last[d]}

C16_Witness ==
    /\ Len(shifts) = 9
    /\ Stride = <<4, 4>>
    /\ shifts[9] = <<6, 6>>
    /\ {shifts[i][1] : i \in DOMAIN shifts} = {0, 4, 6}

\* the shift that follows `shift` in the nested order in which a dimension
\* d advances before a dimension e exactly if fastest[d] < fastest[e]
NextShift(shift, fastest, min_shift, max_shift, stride) ==
    LET movable == {d \in DOMAIN shift : shift[d] < max_shift[d]}
        d == CHOOSE m \in movable : \A n \in movable : fastest[m] <= fastest[n]
    IN [e \in DOMAIN shift |->
           IF fastest[e] < fastest[d] THEN min_shift[e]
           ELSE IF e = d THEN Min(shift[d] + stride[d], max_shift[d])
           ELSE shift[e]]

\* C17 as stated: consecutive shifts are in row-major order, the last
\* dimension advancing first and a lower-indexed dimension advancing only
\* when all higher-indexed dimensions are at their last valid offset and
\* wrap back to the shift ROI's offset.
C17_LastDimensionFastest ==
    Len(shifts) > 1 =>
        LET shift_roi == ShiftRoi
            stride == Stride
            last == LastShift(shift_roi)
        IN \A i \in 1..(Len(shifts) - 1) :
               shifts[i + 1] = NextShift(shifts[i], [d \in DOMAIN stride |-> Len(stride) - d],
                                         shift_roi.offset, last, stride)

\* C17 amended: consecutive shifts are in a fixed nested order with the
\* first dimension fastest: dimension 0 advances first and a higher-indexed
\* dimension advances only when all lower-indexed dimensions are at their
\* last valid offset and wrap back to the shift ROI's offset.
C17_FirstDimensionFastest ==
    Len(shifts) > 1 =>
        LET shift_roi == ShiftRoi
            stride == Stride
            last == LastShift(shift_roi)
        IN \A i \in 1..(Len(shifts) - 1) :
               shifts[i + 1] = NextShift(shifts[i], [d \in DOMAIN stride |-> d],
                                         shift_roi.offset, last, stride)

C17_Witness ==
    /\ Len(shifts) = 9
    /\ shifts[2] = <<4, 0>>
    /\ shifts[3] = <<6, 0>>
    /\ shifts[4] = <<0, 4>>
    /\ Len(upstream) = 4
    /\ upstream[4].request = ShiftRequest(reference, <<0, 4>>)

\* ------------------------------------------------------------------------
\* Properties of the multi-worker path of Scan
\* ------------------------------------------------------------------------

\* the requests of a sequence of records with a field `request`
RequestsOf(seq) == [i \in DOMAIN seq |-> seq[i].request]

\* no two chunks of the scan overlap in any stream
ChunksDisjoint ==
    \A i, j \in DOMAIN shifts :
        i # j => \A k \in DOMAIN reference :
            RoiEmpty(RoiIntersect(RoiShift(reference[k], shifts[i]),
                                  RoiShift(reference[k], shifts[j])))

\* the batch the single-worker loop returns for the same inputs
DirectBatch ==
    IF DOMAIN request = {} THEN EmptyBatch
    ELSE FoldDirect(EmptyBatch, reference, request, spec, shifts, 1)

\* C19: with num_workers > 1 the sub-requests are enqueued in enumeration
\* order and each is taken once (the requests taken so far followed by those
\* still queued are the shifted references in enumeration order); every
\* chunk folded is the result of a request that was taken, and none is
\* folded twice; when provide returns it has dequeued one chunk per shift,
\* and if the chunks do not overlap the batch returned is the batch of the
\* single-worker path, whatever the interleaving of the workers was.
C19_PoolFoldsEachChunkOnce ==
    (num_workers > 1 /\ s_pc \in {"dequeue", "raised", "returned"}) =>
        /\ RequestsOf(upstream) \o RequestsOf(request_queue) = ShiftedReferences(shifts)
        /\ \A i \in DOMAIN folded :
               \E j \in DOMAIN upstream :
                   upstream[j].ok /\ upstream[j].request = folded[i].request
        /\ \A i, j \in DOMAIN folded : folded[i].request = folded[j].request => i = j
        /\ s_pc = "returned" =>
               /\ Len(folded) = Len(shifts)
               /\ ChunksDisjoint => returned_batch = DirectBatch

C19_Witness ==
    /\ num_workers > 1
    /\ s_pc = "returned"
    /\ DOMAIN request # {}
    /\ ChunksDisjoint
    /\ Len(folded) = 3
    /\ RequestsOf(folded) # ShiftedReferences(shifts)
    /\ returned_batch = DirectBatch

\* C20: on a multi-worker Scan every chunk a provide call folds is the
\* result of a sub-request that same call enqueued, and at the start of a
\* provide call nothing of an earlier call is left: the request queue and
\* the result queue are empty and no worker holds a request or a result.
C20_NoLeftoversAcrossCalls ==
    num_workers > 1 =>
        /\ \A i \in DOMAIN folded : folded[i].call = call_no
        /\ s_pc = "call" =>
               /\ request_queue = <<>>
               /\ result_queue = <<>>
               /\ \A w \in 1..num_workers : p_pc[w] = "idle"

\* C21: a scan with num_workers > 1 does not deadlock: once provide has
\* enqueued its sub-requests, and as long as no upstream request fails, it
\* eventually has dequeued one result per chunk and returns, also when there
\* are more chunks than the workers and the result queue hold together.
C21_PoolScanTerminates ==
    (num_workers > 1 /\ s_pc = "dequeue" /\ DOMAIN request \subseteq DOMAIN reference)
        ~> ((s_pc = "returned" /\ num_processed = Len(shifts)) \/ ScanUpstreamFailed)

C21_Witness ==
    /\ num_workers > 1
    /\ s_pc = "returned"
    /\ ~ScanUpstreamFailed
    /\ Len(shifts) > cache_size + num_workers
    /\ num_processed = Len(shifts)
    /\ request_queue = <<>>
    /\ result_queue = <<>>

====
